---------------------------- MODULE Spec2Model ----------------------------
(***************************************************************************)
(* A model of utopia-core (src/src/index.ts): the clamp() synthesizer, the *)
(* WCAG 1.4.4 checker, the type-scale generator and the space-scale        *)
(* generator.                                                              *)
(*                                                                         *)
(* Numbers.  A JavaScript number is modelled as an exact rational          *)
(* [n |-> numerator, d |-> denominator > 0] in lowest terms.  The inputs   *)
(* are chosen so that no value lies within a rounding error of a rounding  *)
(* boundary, hence IEEE-754 doubles and exact rationals agree on every     *)
(* value that is printed or compared.  Non-finite values (NaN, Infinity)   *)
(* are not modelled: the inputs keep minWidth # maxWidth.                  *)
(*                                                                         *)
(* Strings.  A label (UtopiaSize.label, an entry of customSizes) is a      *)
(* sequence of one-character strings, so that String.prototype.split and   *)
(* toLowerCase are computed character by character.  A clamp() string is   *)
(* only ever produced by a template literal; it is a TLC string built by   *)
(* concatenation of the characters of the formatted numbers.               *)
(*                                                                         *)
(* Optional properties.  An optional property is <<>> when absent          *)
(* (undefined) and <<v>> when present.                                     *)
(***************************************************************************)
EXTENDS Integers, Sequences, FiniteSets, TLC

VARIABLES config, result, prevResult, calls

vars == <<config, result, prevResult, calls>>

-----------------------------------------------------------------------------
(* Optional values *)

Undefined == <<>>

Some(v) == <<v>>

\* `o || dflt` for an optional property holding a truthy value when present,
\* and the default of a destructured parameter (`usePx = false`).
OrElse(o, dflt) == IF o = Undefined THEN dflt ELSE o[1]

-----------------------------------------------------------------------------
(* JavaScript numbers as exact rationals *)

RECURSIVE GCD(_, _)
GCD(a, b) == IF b = 0 THEN a ELSE GCD(b, a % b)

IntAbs(i) == IF i < 0 THEN -i ELSE i

\* The number n/d, in lowest terms with a positive denominator (d # 0).
Rat(n, d) ==
  LET g == GCD(IntAbs(n), IntAbs(d))
      s == IF d < 0 THEN -1 ELSE 1
  IN  [n |-> (s * n) \div g, d |-> (s * d) \div g]

Num(i) == [n |-> i, d |-> 1]

Plus(a, b) == Rat(a.n * b.d + b.n * a.d, a.d * b.d)

Minus(a, b) == Rat(a.n * b.d - b.n * a.d, a.d * b.d)

Times(a, b) ==
  LET g1 == GCD(IntAbs(a.n), b.d)
      g2 == GCD(IntAbs(b.n), a.d)
  IN  Rat((a.n \div g1) * (b.n \div g2), (a.d \div g2) * (b.d \div g1))

\* a / b for b # 0.
Over(a, b) == Times(a, IF b.n < 0 THEN [n |-> -b.d, d |-> -b.n] ELSE [n |-> b.d, d |-> b.n])

Less(a, b) == a.n * b.d < b.n * a.d

Greater(a, b) == Less(b, a)

MathMin(a, b) == IF Less(b, a) THEN b ELSE a

MathMax(a, b) == IF Less(a, b) THEN b ELSE a

MathAbs(a) == [n |-> IntAbs(a.n), d |-> a.d]

\* Math.round: the nearest integer, a tie going towards +Infinity.
MathRound(a) == Num((2 * a.n + a.d) \div (2 * a.d))

\* Math.pow(base, e) for an integer exponent e and base # 0.
RECURSIVE MathPow(_, _)
MathPow(base, e) ==
  IF e = 0 THEN Num(1)
  ELSE IF e < 0 THEN Over(Num(1), MathPow(base, -e))
  ELSE Times(base, MathPow(base, e - 1))

-----------------------------------------------------------------------------
(* Number -> string, as a template literal prints a number with at most     *)
(* four decimals.  A string is the sequence of its characters.              *)

DigitChar(k) == <<"0", "1", "2", "3", "4", "5", "6", "7", "8", "9">>[k + 1]

RECURSIVE IntChars(_)
IntChars(i) ==
  IF i < 10 THEN <<DigitChar(i)>>
  ELSE IntChars(i \div 10) \o <<DigitChar(i % 10)>>

RECURSIVE StripZeros(_)
StripZeros(cs) ==
  IF cs # <<>> /\ cs[Len(cs)] = "0" THEN StripZeros(SubSeq(cs, 1, Len(cs) - 1))
  ELSE cs

\* Number.prototype.toString for a multiple of 1/10000.
NumberString(a) ==
  LET whole == IntAbs(a.n) \div a.d
      frac  == ((IntAbs(a.n) % a.d) * 10000) \div a.d
      fracCs == StripZeros(<<DigitChar(frac \div 1000), DigitChar((frac \div 100) % 10),
                             DigitChar((frac \div 10) % 10), DigitChar(frac % 10)>>)
  IN  (IF a.n < 0 THEN <<"-">> ELSE <<>>)
        \o IntChars(whole)
        \o (IF fracCs = <<>> THEN <<>> ELSE <<".">> \o fracCs)

\* The index of the first character of cs at or after i that is c
\* (Len(cs) + 1 if there is none).
RECURSIVE IndexOf(_, _, _)
IndexOf(cs, c, i) ==
  IF i > Len(cs) THEN Len(cs) + 1
  ELSE IF cs[i] = c THEN i
  ELSE IndexOf(cs, c, i + 1)

\* String.prototype.split on a one-character separator: always at least one
\* part, empty parts kept.
RECURSIVE Split(_, _)
Split(cs, sep) ==
  LET i == IndexOf(cs, sep, 1)
  IN  IF i > Len(cs) THEN <<cs>>
      ELSE <<SubSeq(cs, 1, i - 1)>> \o Split(SubSeq(cs, i + 1, Len(cs)), sep)

UpperCaseLetters ==
  <<"A", "B", "C", "D", "E", "F", "G", "H", "I", "J", "K", "L", "M",
    "N", "O", "P", "Q", "R", "S", "T", "U", "V", "W", "X", "Y", "Z">>

LowerCaseLetters ==
  <<"a", "b", "c", "d", "e", "f", "g", "h", "i", "j", "k", "l", "m",
    "n", "o", "p", "q", "r", "s", "t", "u", "v", "w", "x", "y", "z">>

\* String.prototype.toLowerCase on ASCII.
toLowerCase(cs) ==
  [i \in 1..Len(cs) |->
     IF \E k \in 1..26 : UpperCaseLetters[k] = cs[i]
     THEN LowerCaseLetters[CHOOSE k \in 1..26 : UpperCaseLetters[k] = cs[i]]
     ELSE cs[i]]

-----------------------------------------------------------------------------
(* Arrays *)

\* Array.prototype.reverse: the elements in the opposite order.
Reverse(arr) == [i \in 1..Len(arr) |-> arr[Len(arr) + 1 - i]]

\* Number(a) - Number(b) (line 78): negative when a sorts before b.
sortNumberAscending(a, b) == Minus(a, b)

RECURSIVE InsertSorted(_, _)
InsertSorted(sorted, x) ==
  IF sorted = <<>> THEN <<x>>
  ELSE IF sortNumberAscending(x, Head(sorted)).n < 0 THEN <<x>> \o sorted
  ELSE <<Head(sorted)>> \o InsertSorted(Tail(sorted), x)

\* A mutation of Sorted: the array is left in the order given.
SortedNot(arr) == arr

\* The order Array.prototype.sort(sortNumberAscending) leaves an array in
\* (a stable sort).
RECURSIVE Sorted(_)
Sorted(arr) ==
  IF arr = <<>> THEN <<>>
  ELSE InsertSorted(Sorted(SubSeq(arr, 1, Len(arr) - 1)), arr[Len(arr)])

\* Array.prototype.filter(x => !!x) over optional values.
RECURSIVE Defined(_)
Defined(opts) ==
  IF opts = <<>> THEN <<>>
  ELSE (IF Head(opts) = Undefined THEN <<>> ELSE <<Head(opts)[1]>>) \o Defined(Tail(opts))

-----------------------------------------------------------------------------
(* Helpers (index.ts 73-78) *)

lerp(x, y, a) == Plus(Times(x, Minus(Num(1), a)), Times(y, a))

\* clamp(a, min, max): the first parameter is the value, as in the source.
clamp(a, min, max) == MathMin(max, MathMax(min, a))

invlerp(x, y, a) == clamp(Over(Minus(a, x), Minus(y, x)), Num(0), Num(1))

range(x1, y1, x2, y2, a) == lerp(x2, y2, invlerp(x1, y1, a))

\* A mutation of roundValue: the value is truncated to 4 decimals.
roundValueTruncated(n) ==
  LET scaled == Times(n, Num(10000))
  IN  Over(Num(scaled.n \div scaled.d), Num(10000))

\* Number.EPSILON (2^-52) moves n only across a rounding boundary that n
\* misses by less than 2^-52; no value of the model is that close to one.
roundValue(n) == Over(MathRound(Times(n, Num(10000))), Num(10000))

-----------------------------------------------------------------------------
(* Clamp (index.ts 82-106) *)

\* A mutation of clampBounds: the bounds are emitted as given.
clampBoundsAsGiven(minSize, maxSize) == [min |-> minSize, max |-> maxSize]

\* isNegative, min, max (lines 90-92).
clampBounds(minSize, maxSize) ==
  LET isNegative == Greater(minSize, maxSize)
  IN  [min |-> IF isNegative THEN maxSize ELSE minSize,
       max |-> IF isNegative THEN minSize ELSE maxSize]

relativeUnits(relativeTo) ==
  CASE relativeTo = "viewport" -> <<"v", "i">>
    [] relativeTo = "viewport-width" -> <<"v", "w">>
    [] relativeTo = "container" -> <<"c", "q", "i">>

calculateClamp(cfg) ==
  LET b       == clampBounds(cfg.minSize, cfg.maxSize)
      usePx   == OrElse(cfg.usePx, FALSE)
      divider == IF usePx THEN Num(1) ELSE Num(16)
      unit    == IF usePx THEN <<"p", "x">> ELSE <<"r", "e", "m">>
      relativeUnit == relativeUnits(OrElse(cfg.relativeTo, "viewport"))
      slope   == Over(Minus(Over(cfg.maxSize, divider), Over(cfg.minSize, divider)),
                      Minus(Over(cfg.maxWidth, divider), Over(cfg.minWidth, divider)))
      intersection == Plus(Times(Times(Num(-1), Over(cfg.minWidth, divider)), slope),
                           Over(cfg.minSize, divider))
  IN  <<"c", "l", "a", "m", "p", "(">>
        \o NumberString(roundValue(Over(b.min, divider))) \o unit \o <<",", " ">>
        \o NumberString(roundValue(intersection)) \o unit \o <<" ", "+", " ">>
        \o NumberString(roundValue(Times(slope, Num(100)))) \o relativeUnit \o <<",", " ">>
        \o NumberString(roundValue(Over(b.max, divider))) \o unit \o <<")">>

\* The object literal a caller passes to calculateClamp.
ClampConfig(minSize, maxSize, minWidth, maxWidth, relativeTo, usePx) ==
  [minSize |-> minSize, maxSize |-> maxSize, minWidth |-> minWidth,
   maxWidth |-> maxWidth, relativeTo |-> relativeTo, usePx |-> usePx]

-----------------------------------------------------------------------------
(* checkWCAG (index.ts 115-130) *)

\* A mutation of zoomViolates: the comparison is inverted.
zoomViolatesInverted(z5, z1) == Greater(z5, Times(Num(2), z1))

\* zoom5(vw) < 2*zoom1(vw) (lines 123, 125).
zoomViolates(z5, z1) == Less(z5, Times(Num(2), z1))

\* Some(width) for a violation, Undefined for null.
checkWCAG(cfg) ==
  LET slope     == Over(Minus(cfg.max, cfg.min), Minus(cfg.maxWidth, cfg.minWidth))
      intercept == Minus(cfg.min, Times(cfg.minWidth, slope))
      zoom1(vw) == clamp(cfg.min, Plus(intercept, Times(slope, vw)), cfg.max)
      zoom5(vw) == clamp(Times(Num(5), cfg.min),
                         Plus(Times(Num(5), intercept), Times(slope, vw)),
                         Times(Num(5), cfg.max))
      w5        == Times(Num(5), cfg.minWidth)
  IN  IF zoomViolates(zoom5(w5), zoom1(w5)) THEN Some(w5)
      ELSE IF zoomViolates(zoom5(cfg.maxWidth), zoom1(cfg.maxWidth)) THEN Some(cfg.maxWidth)
      ELSE Undefined

-----------------------------------------------------------------------------
(* Type (index.ts 144-182) *)

calculateTypeSize(cfg, viewport, step) ==
  LET scale    == range(cfg.minWidth, cfg.maxWidth, cfg.minTypeScale, cfg.maxTypeScale, viewport)
      fontSize == range(cfg.minWidth, cfg.maxWidth, cfg.minFontSize, cfg.maxFontSize, viewport)
  IN  Times(fontSize, MathPow(scale, step))

calculateTypeStep(cfg, step) ==
  LET minFontSize == calculateTypeSize(cfg, cfg.minWidth, step)
      maxFontSize == calculateTypeSize(cfg, cfg.maxWidth, step)
      wcagViolation == checkWCAG([min |-> minFontSize, max |-> maxFontSize,
                                  minWidth |-> cfg.minWidth, maxWidth |-> cfg.maxWidth])
  IN  [step |-> step,
       minFontSize |-> roundValue(minFontSize),
       maxFontSize |-> roundValue(maxFontSize),
       wcagViolation |-> wcagViolation,
       clamp |-> calculateClamp(ClampConfig(minFontSize, maxFontSize, cfg.minWidth,
                                            cfg.maxWidth, cfg.relativeTo, Undefined))]

\* A mutation of calculateTypeScale: the positive steps are not reversed.
calculateTypeScaleUnreversed(cfg) ==
  [i \in 1..OrElse(cfg.positiveSteps, 0) |-> calculateTypeStep(cfg, (i - 1) + 1)]
    \o <<calculateTypeStep(cfg, 0)>>
    \o [i \in 1..OrElse(cfg.negativeSteps, 0) |-> calculateTypeStep(cfg, -1 * ((i - 1) + 1))]

\* Array.from({ length }).map((_, i) => f(i)) is [i \in 1..length |-> f(i - 1)].
calculateTypeScale(cfg) ==
  LET positiveSteps ==
        Reverse([i \in 1..OrElse(cfg.positiveSteps, 0) |-> calculateTypeStep(cfg, (i - 1) + 1)])
      negativeSteps ==
        [i \in 1..OrElse(cfg.negativeSteps, 0) |-> calculateTypeStep(cfg, -1 * ((i - 1) + 1))]
  IN  positiveSteps \o <<calculateTypeStep(cfg, 0)>> \o negativeSteps

-----------------------------------------------------------------------------
(* Space (index.ts 186-307) *)

\* The label of a step, before toLowerCase (lines 190-203).
stepLabel(step) ==
  IF step = 1 THEN <<"M">>
  ELSE IF step = 2 THEN <<"L">>
  ELSE IF step = 3 THEN <<"X", "L">>
  ELSE IF step > 3 THEN IntChars(step - 2) \o <<"X", "L">>
  ELSE IF step = -1 THEN <<"X", "S">>
  ELSE IF step < 0 THEN IntChars(IntAbs(step)) \o <<"X", "S">>
  ELSE <<"S">>

\* The UtopiaSize object literal of lines 205-224, 231-250 and 263-282.
UtopiaSize(cfg, label, minSize, maxSize) ==
  [label |-> label,
   minSize |-> minSize,
   maxSize |-> maxSize,
   clamp |-> calculateClamp(ClampConfig(minSize, maxSize, cfg.minWidth, cfg.maxWidth,
                                        cfg.relativeTo, Undefined)),
   clampPx |-> calculateClamp(ClampConfig(minSize, maxSize, cfg.minWidth, cfg.maxWidth,
                                          cfg.relativeTo, Some(TRUE)))]

\* minSize and maxSize are integers, which roundValue leaves as they are; the
\* clamps are computed from the unrounded values.
calculateSpaceSize(cfg, multiplier, step) ==
  LET minSize == MathRound(Times(cfg.minSize, multiplier))
      maxSize == MathRound(Times(cfg.maxSize, multiplier))
      size    == UtopiaSize(cfg, toLowerCase(stepLabel(step)), minSize, maxSize)
  IN  [size EXCEPT !.minSize = roundValue(minSize), !.maxSize = roundValue(maxSize)]

\* The callback of the map of lines 228-250 with the filter of line 251.
oneUpPairsOf(cfg, arr) ==
  Defined([i \in 1..Len(arr) |->
             IF i - 1 = 0 THEN Undefined
             ELSE LET prev == arr[i - 1]
                      size == arr[i]
                  IN  Some(UtopiaSize(cfg, prev.label \o <<"-">> \o size.label,
                                      prev.minSize, size.maxSize))])

\* A mutation of calculateOneUpPairs: the sizes are paired in the order given.
calculateOneUpPairsUnreversed(cfg, sizes) ==
  [sizes |-> sizes, value |-> oneUpPairsOf(cfg, sizes)]

\* sizes.reverse() reverses the caller's array in place and returns it; the
\* spread copies the reversed array.  `sizes` is the caller's array after the
\* call, `value` the array returned.
calculateOneUpPairs(cfg, sizes) ==
  LET reversed == Reverse(sizes)
  IN  [sizes |-> reversed, value |-> oneUpPairsOf(cfg, [i \in 1..Len(reversed) |-> reversed[i]])]

\* Array.prototype.find(x => x.label === key): the first match, if any.
RECURSIVE findLabel(_, _)
findLabel(sizes, key) ==
  IF sizes = <<>> THEN Undefined
  ELSE IF Head(sizes).label = key THEN Some(Head(sizes))
  ELSE findLabel(Tail(sizes), key)

\* A mutation of customPair: the pair takes both sizes from its first label.
customPairFromFirst(cfg, sizes, label) ==
  LET parts == Split(label, "-")
      a == findLabel(sizes, parts[1])
  IN  IF Len(parts) < 2 \/ parts[1] = <<>> \/ parts[2] = <<>> \/ a = Undefined
         \/ findLabel(sizes, parts[2]) = Undefined
      THEN Undefined
      ELSE Some(UtopiaSize(cfg, parts[1] \o <<"-">> \o parts[2], a[1].minSize, a[1].maxSize))

\* The callback of the map of lines 255-282: Undefined for null.  The
\* destructuring [keyA, keyB] takes the first two parts of the split and
\* ignores any further part; keyB is undefined when there is one part.
customPair(cfg, sizes, label) ==
  LET parts == Split(label, "-")
      keyA  == Some(parts[1])
      keyB  == IF Len(parts) >= 2 THEN Some(parts[2]) ELSE Undefined
  IN  IF keyA[1] = <<>> \/ keyB = Undefined \/ keyB[1] = <<>> THEN Undefined
      ELSE LET a == findLabel(sizes, keyA[1])
               b == findLabel(sizes, keyB[1])
           IN  IF a = Undefined \/ b = Undefined THEN Undefined
               ELSE Some(UtopiaSize(cfg, keyA[1] \o <<"-">> \o keyB[1], a[1].minSize, b[1].maxSize))

calculateCustomPairs(cfg, sizes) ==
  LET customSizes == OrElse(cfg.customSizes, <<>>)
  IN  Defined([i \in 1..Len(customSizes) |-> customPair(cfg, sizes, customSizes[i])])

\* A mutation of sortedCopy: the caller's array itself is sorted.
sortedInPlace(steps) ==
  [source |-> IF steps = Undefined THEN Undefined ELSE Some(Sorted(steps[1])),
   value  |-> Sorted(OrElse(steps, <<>>))]

\* [...steps || []].sort(sortNumberAscending): the spread makes a new array
\* and the sort orders that one.  `source` is the caller's property after
\* the expression, `value` the sorted array.
sortedCopy(steps) ==
  [source |-> steps, value |-> Sorted(OrElse(steps, <<>>))]

\* `config` is the caller's configuration object after the call, `value`
\* the UtopiaSpaceScale returned.  The `sizes` returned is the array that
\* calculateOneUpPairs has reversed.
calculateSpaceScale(cfg) ==
  LET positiveSorted == sortedCopy(cfg.positiveSteps)
      negativeSorted == sortedCopy(cfg.negativeSteps)
      positiveSteps ==
        Reverse([i \in 1..Len(positiveSorted.value) |->
                   calculateSpaceSize(cfg, positiveSorted.value[i], (i - 1) + 1)])
      negativeDescending == Reverse(negativeSorted.value)
      negativeSteps ==
        [i \in 1..Len(negativeDescending) |->
           calculateSpaceSize(cfg, negativeDescending[i], -1 * ((i - 1) + 1))]
      sizes == positiveSteps \o <<calculateSpaceSize(cfg, Num(1), 0)>> \o negativeSteps
      oneUpPairs == calculateOneUpPairs(cfg, sizes)
      customPairs == calculateCustomPairs(cfg, oneUpPairs.sizes)
  IN  [config |-> [cfg EXCEPT !.positiveSteps = positiveSorted.source,
                              !.negativeSteps = negativeSorted.source],
       value  |-> [sizes |-> oneUpPairs.sizes,
                   oneUpPairs |-> oneUpPairs.value,
                   customPairs |-> customPairs]]

-----------------------------------------------------------------------------
(* Calls.  A behaviour is a caller holding one configuration object and    *)
(* calling one exported function on it, at most MaxCalls times; `result`   *)
(* is the value the last call returned and `prevResult` the one before.    *)

MaxCalls == 2

InitCaller ==
  /\ result = Undefined
  /\ prevResult = Undefined
  /\ calls = 0

Returned(value) ==
  /\ calls < MaxCalls
  /\ result' = Some(value)
  /\ prevResult' = result
  /\ calls' = calls + 1

(* calculateClamp *)

ClampSizes == {Num(8), Num(16), Num(24)}

ClampWidths == {<<Num(320), Num(1240)>>, <<Num(400), Num(1200)>>, <<Num(1240), Num(320)>>}

RelativeTos == {Undefined, Some("viewport"), Some("viewport-width"), Some("container")}

UsePxs == {Undefined, Some(FALSE), Some(TRUE)}

InitClamp ==
  /\ \E minSize \in ClampSizes, maxSize \in ClampSizes, w \in ClampWidths,
        relativeTo \in RelativeTos, usePx \in UsePxs :
       config = ClampConfig(minSize, maxSize, w[1], w[2], relativeTo, usePx)
  /\ InitCaller

CallCalculateClamp ==
  /\ Returned(calculateClamp(config))
  /\ UNCHANGED config

SpecClamp == InitClamp /\ [][CallCalculateClamp]_vars

(* checkWCAG *)

WCAGSizes == {Num(-16), Num(-1), Num(0), Num(1), Num(16), Num(24), Num(80)}

WCAGWidths == {<<Num(320), Num(1240)>>, <<Num(0), Num(1000)>>, <<Num(-100), Num(100)>>,
               <<Num(1240), Num(320)>>}

InitWCAG ==
  /\ \E min \in WCAGSizes, max \in WCAGSizes, w \in WCAGWidths :
       config = [min |-> min, max |-> max, minWidth |-> w[1], maxWidth |-> w[2]]
  /\ InitCaller

CallCheckWCAG ==
  /\ Returned(checkWCAG(config))
  /\ UNCHANGED config

SpecWCAG == InitWCAG /\ [][CallCheckWCAG]_vars

-----------------------------------------------------------------------------
(* Reading a clamp() string back *)

DigitValue(c) == CHOOSE k \in 0..9 : DigitChar(k) = c

IsDigit(c) == \E k \in 0..9 : DigitChar(k) = c

\* The value of the digits cs[i..], read as an integer continuing acc, and
\* the number of digits read.
RECURSIVE ReadDigits(_, _, _, _)
ReadDigits(cs, i, acc, count) ==
  IF i <= Len(cs) /\ IsDigit(cs[i])
  THEN ReadDigits(cs, i + 1, acc * 10 + DigitValue(cs[i]), count + 1)
  ELSE [value |-> acc, count |-> count, next |-> i]

RECURSIVE PowerOfTen(_)
PowerOfTen(k) == IF k = 0 THEN 1 ELSE 10 * PowerOfTen(k - 1)

\* parseFloat: the decimal number cs starts with, after blanks; what follows
\* the number (a unit) is ignored.
RECURSIVE ParseFloat(_)
ParseFloat(cs) ==
  IF cs # <<>> /\ Head(cs) = " " THEN ParseFloat(Tail(cs))
  ELSE
    LET neg   == cs # <<>> /\ Head(cs) = "-"
        start == IF neg THEN 2 ELSE 1
        whole == ReadDigits(cs, start, 0, 0)
        hasFrac == whole.next <= Len(cs) /\ cs[whole.next] = "."
        frac  == IF hasFrac THEN ReadDigits(cs, whole.next + 1, 0, 0)
                 ELSE [value |-> 0, count |-> 0, next |-> whole.next]
        mag   == Plus(Num(whole.value), Rat(frac.value, PowerOfTen(frac.count)))
    IN  IF neg THEN Minus(Num(0), mag) ELSE mag

\* The three arguments of "clamp(A, B, C)", as written.
ClampArguments(s) ==
  LET open   == IndexOf(s, "(", 1)
      comma1 == IndexOf(s, ",", open + 1)
      comma2 == IndexOf(s, ",", comma1 + 1)
      close  == IndexOf(s, ")", comma2 + 1)
  IN  <<SubSeq(s, open + 1, comma1 - 1), SubSeq(s, comma1 + 1, comma2 - 1),
        SubSeq(s, comma2 + 1, close - 1)>>

-----------------------------------------------------------------------------
(* The claims about calculateClamp *)

ExampleClampConfig ==
  ClampConfig(Num(16), Num(24), Num(320), Num(1240), Undefined, Undefined)

\* C2 (as stated): calculateClamp({minSize:16, maxSize:24, minWidth:320,
\* maxWidth:1240}) with default options returns exactly
\* "clamp(1rem, 0.8065rem + 0.8696vi, 1.5rem)".
C2_ExampleAsStated ==
  (calls > 0 /\ config = ExampleClampConfig)
    => result = Some(
         <<"c", "l", "a", "m", "p", "(", "1", "r", "e", "m", ",", " ", "0", ".", "8", "0", "6", "5", "r", "e", "m", " ", "+", " ", "0", ".", "8", "6", "9", "6", "v", "i", ",", " ", "1", ".", "5", "r", "e", "m", ")">>)

\* C2 (amended): with the sizes divided by 16, intersection =
\* -minWidth/16 * slope + minSize/16 and coefficient = slope*100, each rounded
\* to 4 decimals, calculateClamp({minSize:16, maxSize:24, minWidth:320,
\* maxWidth:1240}) returns exactly "clamp(1rem, 0.8261rem + 0.8696vi, 1.5rem)".
C2_Example ==
  (calls > 0 /\ config = ExampleClampConfig)
    => result = Some(
         <<"c", "l", "a", "m", "p", "(", "1", "r", "e", "m", ",", " ", "0", ".", "8", "2", "6", "1", "r", "e", "m", " ", "+", " ", "0", ".", "8", "6", "9", "6", "v", "i", ",", " ", "1", ".", "5", "r", "e", "m", ")">>)

C2_Witness == calls > 0 /\ config = ExampleClampConfig

\* C7: for every input of calculateClamp (minSize > maxSize included, usePx
\* set or not), the number written as the first argument of the clamp()
\* string is less than or equal to the number written as its third argument.
C7_BracketOrder ==
  calls > 0 =>
    LET args == ClampArguments(result[1])
    IN  ~Less(ParseFloat(args[3]), ParseFloat(args[1]))

\* A call with minSize > maxSize and usePx set has returned.
C7_Witness ==
  /\ calls > 0
  /\ Greater(config.minSize, config.maxSize)
  /\ config.usePx = Some(TRUE)
  /\ Less(ParseFloat(ClampArguments(result[1])[1]), ParseFloat(ClampArguments(result[1])[3]))

-----------------------------------------------------------------------------
(* The claims about checkWCAG *)

\* C8 (as stated): checkWCAG returns null for every configuration with
\* min = max and minWidth < maxWidth, whatever the value of min.
C8_ConstantSizeAsStated ==
  (calls > 0 /\ config.min = config.max /\ Less(config.minWidth, config.maxWidth))
    => result = Some(Undefined)

\* C8 (amended): checkWCAG returns null for every configuration with
\* min = max >= 0 and minWidth < maxWidth.
C8_ConstantSize ==
  (/\ calls > 0
   /\ config.min = config.max
   /\ ~Less(config.min, Num(0))
   /\ Less(config.minWidth, config.maxWidth))
    => result = Some(Undefined)

\* checkWCAG has returned null for a constant positive size.
C8_Witness ==
  /\ calls > 0
  /\ config.min = config.max
  /\ Greater(config.min, Num(0))
  /\ Less(config.minWidth, config.maxWidth)
  /\ result = Some(Undefined)

-----------------------------------------------------------------------------
(* calculateTypeScale: the caller *)

MaxTypeSteps == 2

TypeFontSizes == {Num(16), Num(20)}

TypeScales == {<<Rat(6, 5), Rat(5, 4)>>, <<Rat(5, 4), Rat(6, 5)>>, <<Num(1), Num(1)>>}

TypeStepCounts == {Undefined} \cup {Some(k) : k \in 0..MaxTypeSteps}

InitType ==
  /\ \E minFontSize \in TypeFontSizes, maxFontSize \in TypeFontSizes, scales \in TypeScales,
        positiveSteps \in TypeStepCounts, negativeSteps \in TypeStepCounts :
       config = [minWidth |-> Num(320), maxWidth |-> Num(1120),
                 minFontSize |-> minFontSize, maxFontSize |-> maxFontSize,
                 minTypeScale |-> scales[1], maxTypeScale |-> scales[2],
                 positiveSteps |-> positiveSteps, negativeSteps |-> negativeSteps,
                 relativeTo |-> Undefined]
  /\ InitCaller

CallCalculateTypeScale ==
  /\ Returned(calculateTypeScale(config))
  /\ UNCHANGED config

SpecType == InitType /\ [][CallCalculateTypeScale]_vars

-----------------------------------------------------------------------------
(* calculateSpaceScale: the caller *)

MaxPositive == 4

MaxNegative == 2

MaxCustom == 2

SeqsUpTo(S, n) == UNION {[1..k -> S] : k \in 0..n}

PositiveMultipliers == {Rat(6, 5), Rat(3, 2)}

NegativeMultipliers == {Rat(4, 5), Rat(1, 2)}

SpaceConfig(positiveSteps, negativeSteps, customSizes) ==
  [minWidth |-> Num(320), maxWidth |-> Num(1240), minSize |-> Num(16), maxSize |-> Num(20),
   positiveSteps |-> positiveSteps, negativeSteps |-> negativeSteps,
   customSizes |-> customSizes, relativeTo |-> Undefined]

CallCalculateSpaceScale ==
  LET call == calculateSpaceScale(config)
  IN  /\ Returned(call.value)
      /\ config' = call.config

\* Step lists of every length and order, with one list of custom sizes.
Init ==
  /\ \E positiveSteps \in {Undefined} \cup {Some(l) : l \in SeqsUpTo(PositiveMultipliers, MaxPositive)},
        negativeSteps \in {Undefined} \cup {Some(l) : l \in SeqsUpTo(NegativeMultipliers, MaxNegative)} :
       config = SpaceConfig(positiveSteps, negativeSteps, Some(<<<<"x", "s", "-", "l">>, <<"s", "-", "m">>>>))
  /\ InitCaller

Next == CallCalculateSpaceScale

Spec == Init /\ [][Next]_vars

\* Custom sizes of every shape, with few step lists.
CustomSizeStrings ==
  {<<"s", "-", "m">>,
   <<"m", "-", "s">>,
   <<"x", "s", "-", "l">>,
   <<"s", "-", "q">>,
   <<"s">>,
   <<>>,
   <<"s", "-">>,
   <<"-", "s">>,
   <<"s", "-", "m", "-", "l">>,
   <<"s", "-", "-", "m">>}

CustomStepLists ==
  {<<Undefined, Undefined>>,
   <<Some(<<Rat(6, 5), Rat(3, 2)>>), Some(<<Rat(4, 5)>>)>>,
   <<Some(<<Rat(3, 2), Rat(6, 5)>>), Some(<<>>)>>}

InitCustom ==
  /\ \E steps \in CustomStepLists,
        customSizes \in {Undefined} \cup {Some(l) : l \in SeqsUpTo(CustomSizeStrings, MaxCustom)} :
       config = SpaceConfig(steps[1], steps[2], customSizes)
  /\ InitCaller

SpecCustom == InitCustom /\ [][CallCalculateSpaceScale]_vars

-----------------------------------------------------------------------------
(* The claims about calculateTypeScale *)

StepCount(steps) == OrElse(steps, 0)

\* C6: calculateTypeScale with positiveSteps = P and negativeSteps = Q (each
\* 0 when absent) returns exactly P+Q+1 steps whose `step` values are
\* P, P-1, ..., 1, 0, -1, ..., -Q in that order; with both absent it returns
\* the single step 0.
C6_TypeSteps ==
  calls > 0 =>
    LET P == StepCount(config.positiveSteps)
        Q == StepCount(config.negativeSteps)
    IN  /\ Len(result[1]) = P + Q + 1
        /\ \A i \in 1..(P + Q + 1) : result[1][i].step = P + 1 - i
        /\ (config.positiveSteps = Undefined /\ config.negativeSteps = Undefined)
             => (Len(result[1]) = 1 /\ result[1][1].step = 0)

\* calculateTypeScale has returned the steps 2, 1, 0, -1, -2.
C6_Witness ==
  /\ calls > 0
  /\ config.positiveSteps = Some(2)
  /\ config.negativeSteps = Some(2)
  /\ [i \in 1..Len(result[1]) |-> result[1][i].step] = <<2, 1, 0, -1, -2>>

-----------------------------------------------------------------------------
(* The claims about calculateSpaceScale *)

\* The naming ladder of the specification, section 4.5.
Ladder(step) ==
  CASE step = 0 -> <<"s">>
    [] step = -1 -> <<"x", "s">>
    [] step < -1 -> IntChars(-step) \o <<"x", "s">>
    [] step = 1 -> <<"m">>
    [] step = 2 -> <<"l">>
    [] step = 3 -> <<"x", "l">>
    [] step > 3 -> IntChars(step - 2) \o <<"x", "l">>

PositiveList == OrElse(config.positiveSteps, <<>>)

NegativeList == OrElse(config.negativeSteps, <<>>)

\* The k-th smallest element of a list of numbers, counting repetitions.
KthSmallest(list, k) ==
  CHOOSE m \in {list[i] : i \in 1..Len(list)} :
    /\ Cardinality({i \in 1..Len(list) : Less(list[i], m)}) < k
    /\ k <= Cardinality({i \in 1..Len(list) : ~Less(m, list[i])})

\* The k-th largest element of a list of numbers, counting repetitions.
KthLargest(list, k) ==
  CHOOSE m \in {list[i] : i \in 1..Len(list)} :
    /\ Cardinality({i \in 1..Len(list) : Less(m, list[i])}) < k
    /\ k <= Cardinality({i \in 1..Len(list) : ~Less(list[i], m)})

\* The multiplier of a step: the step-th smallest positive multiplier, 1 for
\* the base, the |step|-th largest negative multiplier.
MultiplierOfStep(step) ==
  IF step = 0 THEN Num(1)
  ELSE IF step > 0 THEN KthSmallest(PositiveList, step)
  ELSE KthLargest(NegativeList, -step)

StepMinSize(step) == MathRound(Times(config.minSize, MultiplierOfStep(step)))

StepMaxSize(step) == MathRound(Times(config.maxSize, MultiplierOfStep(step)))

Labels(sizes) == [i \in 1..Len(sizes) |-> sizes[i].label]

\* C1: the `sizes` returned by calculateSpaceScale is ordered positive steps
\* with the largest step first, then the base step 0, then the negative
\* steps -1, -2, ...; positiveSteps=[1.2,1.5], negativeSteps=[0.8] yields
\* the labels l, m, s, xs in that order.
C1_SizesOrder ==
  calls > 0 =>
    LET P == Len(PositiveList)
        Q == Len(NegativeList)
    IN  Labels(result[1].sizes) = [i \in 1..(P + Q + 1) |-> Ladder(P + 1 - i)]

\* C5: for a space scale whose `sizes` has N entries, `oneUpPairs` has
\* exactly N-1 entries; the i-th pairs the i-th smallest step k with step
\* k+1, is labelled {label of k}-{label of k+1}, and takes minSize from step k
\* and maxSize from step k+1; the smallest step is the upper element of no
\* pair.
C5_OneUpPairs ==
  calls > 0 =>
    LET pairs == result[1].oneUpPairs
        N == Len(result[1].sizes)
        Q == Len(NegativeList)
    IN  /\ N = Len(PositiveList) + Q + 1
        /\ Len(pairs) = N - 1
        /\ \A i \in 1..(N - 1) :
             LET k == i - Q - 1
             IN  /\ pairs[i].label = Ladder(k) \o <<"-">> \o Ladder(k + 1)
                 /\ pairs[i].minSize = StepMinSize(k)
                 /\ pairs[i].maxSize = StepMaxSize(k + 1)
                 /\ \A j \in (-Q)..(N - Q - 1) :
                      pairs[i].label # Ladder(j) \o <<"-">> \o Ladder(-Q)

\* calculateSpaceScale has returned the pairs xs-s, s-m, m-l of four sizes.
C5_Witness ==
  /\ calls > 0
  /\ Len(result[1].sizes) = 4
  /\ Labels(result[1].oneUpPairs) = <<<<"x", "s", "-", "s">>, <<"s", "-", "m">>, <<"m", "-", "l">>>>
  /\ result[1].oneUpPairs[1].minSize # result[1].oneUpPairs[2].minSize

\* The configuration with both step lists in ascending order.
IsAscending(list) == \A i \in 1..(Len(list) - 1) : ~Less(list[i + 1], list[i])

SameElements(a, b) ==
  /\ Len(a) = Len(b)
  /\ \A x \in {a[i] : i \in 1..Len(a)} :
       Cardinality({i \in 1..Len(a) : a[i] = x}) = Cardinality({i \in 1..Len(b) : b[i] = x})

Ascending(steps) ==
  IF steps = Undefined THEN Undefined
  ELSE Some(CHOOSE l \in [1..Len(steps[1]) -> {steps[1][i] : i \in 1..Len(steps[1])}] :
              IsAscending(l) /\ SameElements(l, steps[1]))

\* C9: step indices and labels depend only on the sorted multipliers: the
\* i-th smallest positive multiplier gets step i and the i-th largest
\* negative multiplier step -i, each size is labelled by the ladder, and the
\* result is the one of the configuration with its lists put in ascending
\* order.  The step lists of the model range over every order of their
\* elements, so any two permutations of a list give the same result.
C9_SortedSteps ==
  calls > 0 =>
    LET sizes == result[1].sizes
        P == Len(PositiveList)
        Q == Len(NegativeList)
    IN  /\ Len(sizes) = P + Q + 1
        /\ \A k \in (-Q)..P :
             \E i \in 1..Len(sizes) :
               /\ sizes[i].label = Ladder(k)
               /\ sizes[i].minSize = StepMinSize(k)
               /\ sizes[i].maxSize = StepMaxSize(k)
        /\ result[1] = calculateSpaceScale(
                         [config EXCEPT !.positiveSteps = Ascending(config.positiveSteps),
                                        !.negativeSteps = Ascending(config.negativeSteps)]).value

\* calculateSpaceScale has returned for four positive steps given out of
\* order and two negative steps given out of order, with the labels 2xl and
\* 2xs among the sizes.
C9_Witness ==
  /\ calls > 0
  /\ PositiveList = <<Rat(3, 2), Rat(6, 5), Rat(3, 2), Rat(6, 5)>>
  /\ NegativeList = <<Rat(1, 2), Rat(4, 5)>>
  /\ \E i \in 1..Len(result[1].sizes) : result[1].sizes[i].label = <<"2", "x", "l">>
  /\ \E i \in 1..Len(result[1].sizes) : result[1].sizes[i].label = <<"2", "x", "s">>

\* C10: a call of calculateSpaceScale leaves the caller's configuration
\* (positiveSteps, negativeSteps and customSizes, contents and order)
\* unchanged, and a second call with the same configuration object returns
\* the sizes, oneUpPairs and customPairs of the first.
C10_Pure ==
  [][/\ config'.positiveSteps = config.positiveSteps
     /\ config'.negativeSteps = config.negativeSteps
     /\ config'.customSizes = config.customSizes
     /\ calls >= 1 => result' = result]_vars

\* Two calls have returned for step lists given out of order.
C10_Witness ==
  /\ calls = 2
  /\ config.positiveSteps = Some(<<Rat(3, 2), Rat(6, 5)>>)
  /\ config.negativeSteps = Some(<<Rat(1, 2), Rat(4, 5)>>)
  /\ prevResult = result

-----------------------------------------------------------------------------
(* The claims about customSizes *)

Dashes(entry) == {i \in 1..Len(entry) : entry[i] = "-"}

\* The entry is "A-B": it has one separator.
IsPair(entry) == Cardinality(Dashes(entry)) = 1

LabelA(entry) == SubSeq(entry, 1, (CHOOSE i \in Dashes(entry) : TRUE) - 1)

LabelB(entry) == SubSeq(entry, (CHOOSE i \in Dashes(entry) : TRUE) + 1, Len(entry))

\* The entry splits on "-" into exactly two non-empty parts.
WellFormed(entry) == IsPair(entry) /\ LabelA(entry) # <<>> /\ LabelB(entry) # <<>>

RECURSIVE IsSubsequence(_, _)
IsSubsequence(a, b) ==
  IF a = <<>> THEN TRUE
  ELSE IF b = <<>> THEN FALSE
  ELSE IF Head(a) = Head(b) THEN IsSubsequence(Tail(a), Tail(b))
  ELSE IsSubsequence(a, Tail(b))

CustomList == OrElse(config.customSizes, <<>>)

\* C3: every customSizes string that does not split on "-" into exactly two
\* non-empty parts contributes no entry to customPairs: the entries emitted
\* are, in order, entries of customSizes that do split so.
C3_MalformedDropped ==
  calls > 0 =>
    IsSubsequence(Labels(result[1].customPairs), SelectSeq(CustomList, WellFormed))

IsKnown(label) == \E i \in 1..Len(result[1].sizes) : result[1].sizes[i].label = label

SizeOf(label) ==
  result[1].sizes[CHOOSE i \in 1..Len(result[1].sizes) : result[1].sizes[i].label = label]

BothKnown(entry) == IsKnown(LabelA(entry)) /\ IsKnown(LabelB(entry))

\* C4: a customSizes entry "A-B" produces a customPairs entry if and only if
\* A and B are both labels of `sizes`; the entry is labelled "A-B" and takes
\* minSize from A and maxSize from B, and the entries emitted keep the
\* order of customSizes.
C4_CustomPairs ==
  (calls > 0 /\ \A i \in 1..Len(CustomList) : IsPair(CustomList[i])) =>
    LET kept  == SelectSeq(CustomList, BothKnown)
        pairs == result[1].customPairs
    IN  /\ Labels(pairs) = kept
        /\ \A i \in 1..Len(pairs) :
             /\ pairs[i].minSize = SizeOf(LabelA(kept[i])).minSize
             /\ pairs[i].maxSize = SizeOf(LabelB(kept[i])).maxSize

\* calculateSpaceScale has returned for ["xs-l", "s-q"]: an entry kept and an
\* entry with an unknown label dropped.
C4_Witness ==
  /\ calls > 0
  /\ CustomList = <<<<"x", "s", "-", "l">>, <<"s", "-", "q">>>>
  /\ Labels(result[1].customPairs) = <<<<"x", "s", "-", "l">>>>
  /\ result[1].customPairs[1].minSize = Num(13)
  /\ result[1].customPairs[1].maxSize = Num(30)

=============================================================================
